---- MODULE Spec2Model ----
(***************************************************************************)
(* Model of the lexical analyzer of src/src/main.py (class Lexer).         *)
(*                                                                         *)
(* A source text is a sequence of one-character strings.  Offsets are      *)
(* 0-based as in Python: the character at offset i of s is s[i + 1].       *)
(* One step of the model is one iteration of the loop over                 *)
(* tok_regex.finditer(src) in Lexer.tokenize; the combined regular         *)
(* expression is modelled alternative by alternative, in the order of      *)
(* token_specification, each alternative by the length of its match.       *)
(*                                                                         *)
(* A character is written as itself ("a", "\n"); a character that a TLA+   *)
(* string cannot hold is written by its code point, as in "U+0663".        *)
(***************************************************************************)
EXTENDS Integers, Sequences, FiniteSets, TLC

\* ------------------------------------------------------------------ bounds
\* Longest source text enumerated over each input alphabet.
MaxLen == 4
\* Number of tokenize() calls made on one Lexer object (SpecRescan only).
MaxCalls == 2

\* ------------------------------------------------------- character classes
\* The decimal digits of Unicode (general category Nd, Unicode 14.0: 660
\* characters), in rows of ten consecutive code points with the values
\* 0 to 9.  The first row holds the ASCII digits.
DigitRows == <<
    <<"0", "1", "2", "3", "4", "5", "6", "7", "8", "9">>,
    <<"U+0660", "U+0661", "U+0662", "U+0663", "U+0664", "U+0665", "U+0666", "U+0667", "U+0668", "U+0669">>,
    <<"U+06F0", "U+06F1", "U+06F2", "U+06F3", "U+06F4", "U+06F5", "U+06F6", "U+06F7", "U+06F8", "U+06F9">>,
    <<"U+07C0", "U+07C1", "U+07C2", "U+07C3", "U+07C4", "U+07C5", "U+07C6", "U+07C7", "U+07C8", "U+07C9">>,
    <<"U+0966", "U+0967", "U+0968", "U+0969", "U+096A", "U+096B", "U+096C", "U+096D", "U+096E", "U+096F">>,
    <<"U+09E6", "U+09E7", "U+09E8", "U+09E9", "U+09EA", "U+09EB", "U+09EC", "U+09ED", "U+09EE", "U+09EF">>,
    <<"U+0A66", "U+0A67", "U+0A68", "U+0A69", "U+0A6A", "U+0A6B", "U+0A6C", "U+0A6D", "U+0A6E", "U+0A6F">>,
    <<"U+0AE6", "U+0AE7", "U+0AE8", "U+0AE9", "U+0AEA", "U+0AEB", "U+0AEC", "U+0AED", "U+0AEE", "U+0AEF">>,
    <<"U+0B66", "U+0B67", "U+0B68", "U+0B69", "U+0B6A", "U+0B6B", "U+0B6C", "U+0B6D", "U+0B6E", "U+0B6F">>,
    <<"U+0BE6", "U+0BE7", "U+0BE8", "U+0BE9", "U+0BEA", "U+0BEB", "U+0BEC", "U+0BED", "U+0BEE", "U+0BEF">>,
    <<"U+0C66", "U+0C67", "U+0C68", "U+0C69", "U+0C6A", "U+0C6B", "U+0C6C", "U+0C6D", "U+0C6E", "U+0C6F">>,
    <<"U+0CE6", "U+0CE7", "U+0CE8", "U+0CE9", "U+0CEA", "U+0CEB", "U+0CEC", "U+0CED", "U+0CEE", "U+0CEF">>,
    <<"U+0D66", "U+0D67", "U+0D68", "U+0D69", "U+0D6A", "U+0D6B", "U+0D6C", "U+0D6D", "U+0D6E", "U+0D6F">>,
    <<"U+0DE6", "U+0DE7", "U+0DE8", "U+0DE9", "U+0DEA", "U+0DEB", "U+0DEC", "U+0DED", "U+0DEE", "U+0DEF">>,
    <<"U+0E50", "U+0E51", "U+0E52", "U+0E53", "U+0E54", "U+0E55", "U+0E56", "U+0E57", "U+0E58", "U+0E59">>,
    <<"U+0ED0", "U+0ED1", "U+0ED2", "U+0ED3", "U+0ED4", "U+0ED5", "U+0ED6", "U+0ED7", "U+0ED8", "U+0ED9">>,
    <<"U+0F20", "U+0F21", "U+0F22", "U+0F23", "U+0F24", "U+0F25", "U+0F26", "U+0F27", "U+0F28", "U+0F29">>,
    <<"U+1040", "U+1041", "U+1042", "U+1043", "U+1044", "U+1045", "U+1046", "U+1047", "U+1048", "U+1049">>,
    <<"U+1090", "U+1091", "U+1092", "U+1093", "U+1094", "U+1095", "U+1096", "U+1097", "U+1098", "U+1099">>,
    <<"U+17E0", "U+17E1", "U+17E2", "U+17E3", "U+17E4", "U+17E5", "U+17E6", "U+17E7", "U+17E8", "U+17E9">>,
    <<"U+1810", "U+1811", "U+1812", "U+1813", "U+1814", "U+1815", "U+1816", "U+1817", "U+1818", "U+1819">>,
    <<"U+1946", "U+1947", "U+1948", "U+1949", "U+194A", "U+194B", "U+194C", "U+194D", "U+194E", "U+194F">>,
    <<"U+19D0", "U+19D1", "U+19D2", "U+19D3", "U+19D4", "U+19D5", "U+19D6", "U+19D7", "U+19D8", "U+19D9">>,
    <<"U+1A80", "U+1A81", "U+1A82", "U+1A83", "U+1A84", "U+1A85", "U+1A86", "U+1A87", "U+1A88", "U+1A89">>,
    <<"U+1A90", "U+1A91", "U+1A92", "U+1A93", "U+1A94", "U+1A95", "U+1A96", "U+1A97", "U+1A98", "U+1A99">>,
    <<"U+1B50", "U+1B51", "U+1B52", "U+1B53", "U+1B54", "U+1B55", "U+1B56", "U+1B57", "U+1B58", "U+1B59">>,
    <<"U+1BB0", "U+1BB1", "U+1BB2", "U+1BB3", "U+1BB4", "U+1BB5", "U+1BB6", "U+1BB7", "U+1BB8", "U+1BB9">>,
    <<"U+1C40", "U+1C41", "U+1C42", "U+1C43", "U+1C44", "U+1C45", "U+1C46", "U+1C47", "U+1C48", "U+1C49">>,
    <<"U+1C50", "U+1C51", "U+1C52", "U+1C53", "U+1C54", "U+1C55", "U+1C56", "U+1C57", "U+1C58", "U+1C59">>,
    <<"U+A620", "U+A621", "U+A622", "U+A623", "U+A624", "U+A625", "U+A626", "U+A627", "U+A628", "U+A629">>,
    <<"U+A8D0", "U+A8D1", "U+A8D2", "U+A8D3", "U+A8D4", "U+A8D5", "U+A8D6", "U+A8D7", "U+A8D8", "U+A8D9">>,
    <<"U+A900", "U+A901", "U+A902", "U+A903", "U+A904", "U+A905", "U+A906", "U+A907", "U+A908", "U+A909">>,
    <<"U+A9D0", "U+A9D1", "U+A9D2", "U+A9D3", "U+A9D4", "U+A9D5", "U+A9D6", "U+A9D7", "U+A9D8", "U+A9D9">>,
    <<"U+A9F0", "U+A9F1", "U+A9F2", "U+A9F3", "U+A9F4", "U+A9F5", "U+A9F6", "U+A9F7", "U+A9F8", "U+A9F9">>,
    <<"U+AA50", "U+AA51", "U+AA52", "U+AA53", "U+AA54", "U+AA55", "U+AA56", "U+AA57", "U+AA58", "U+AA59">>,
    <<"U+ABF0", "U+ABF1", "U+ABF2", "U+ABF3", "U+ABF4", "U+ABF5", "U+ABF6", "U+ABF7", "U+ABF8", "U+ABF9">>,
    <<"U+FF10", "U+FF11", "U+FF12", "U+FF13", "U+FF14", "U+FF15", "U+FF16", "U+FF17", "U+FF18", "U+FF19">>,
    <<"U+104A0", "U+104A1", "U+104A2", "U+104A3", "U+104A4", "U+104A5", "U+104A6", "U+104A7", "U+104A8", "U+104A9">>,
    <<"U+10D30", "U+10D31", "U+10D32", "U+10D33", "U+10D34", "U+10D35", "U+10D36", "U+10D37", "U+10D38", "U+10D39">>,
    <<"U+11066", "U+11067", "U+11068", "U+11069", "U+1106A", "U+1106B", "U+1106C", "U+1106D", "U+1106E", "U+1106F">>,
    <<"U+110F0", "U+110F1", "U+110F2", "U+110F3", "U+110F4", "U+110F5", "U+110F6", "U+110F7", "U+110F8", "U+110F9">>,
    <<"U+11136", "U+11137", "U+11138", "U+11139", "U+1113A", "U+1113B", "U+1113C", "U+1113D", "U+1113E", "U+1113F">>,
    <<"U+111D0", "U+111D1", "U+111D2", "U+111D3", "U+111D4", "U+111D5", "U+111D6", "U+111D7", "U+111D8", "U+111D9">>,
    <<"U+112F0", "U+112F1", "U+112F2", "U+112F3", "U+112F4", "U+112F5", "U+112F6", "U+112F7", "U+112F8", "U+112F9">>,
    <<"U+11450", "U+11451", "U+11452", "U+11453", "U+11454", "U+11455", "U+11456", "U+11457", "U+11458", "U+11459">>,
    <<"U+114D0", "U+114D1", "U+114D2", "U+114D3", "U+114D4", "U+114D5", "U+114D6", "U+114D7", "U+114D8", "U+114D9">>,
    <<"U+11650", "U+11651", "U+11652", "U+11653", "U+11654", "U+11655", "U+11656", "U+11657", "U+11658", "U+11659">>,
    <<"U+116C0", "U+116C1", "U+116C2", "U+116C3", "U+116C4", "U+116C5", "U+116C6", "U+116C7", "U+116C8", "U+116C9">>,
    <<"U+11730", "U+11731", "U+11732", "U+11733", "U+11734", "U+11735", "U+11736", "U+11737", "U+11738", "U+11739">>,
    <<"U+118E0", "U+118E1", "U+118E2", "U+118E3", "U+118E4", "U+118E5", "U+118E6", "U+118E7", "U+118E8", "U+118E9">>,
    <<"U+11950", "U+11951", "U+11952", "U+11953", "U+11954", "U+11955", "U+11956", "U+11957", "U+11958", "U+11959">>,
    <<"U+11C50", "U+11C51", "U+11C52", "U+11C53", "U+11C54", "U+11C55", "U+11C56", "U+11C57", "U+11C58", "U+11C59">>,
    <<"U+11D50", "U+11D51", "U+11D52", "U+11D53", "U+11D54", "U+11D55", "U+11D56", "U+11D57", "U+11D58", "U+11D59">>,
    <<"U+11DA0", "U+11DA1", "U+11DA2", "U+11DA3", "U+11DA4", "U+11DA5", "U+11DA6", "U+11DA7", "U+11DA8", "U+11DA9">>,
    <<"U+16A60", "U+16A61", "U+16A62", "U+16A63", "U+16A64", "U+16A65", "U+16A66", "U+16A67", "U+16A68", "U+16A69">>,
    <<"U+16AC0", "U+16AC1", "U+16AC2", "U+16AC3", "U+16AC4", "U+16AC5", "U+16AC6", "U+16AC7", "U+16AC8", "U+16AC9">>,
    <<"U+16B50", "U+16B51", "U+16B52", "U+16B53", "U+16B54", "U+16B55", "U+16B56", "U+16B57", "U+16B58", "U+16B59">>,
    <<"U+1D7CE", "U+1D7CF", "U+1D7D0", "U+1D7D1", "U+1D7D2", "U+1D7D3", "U+1D7D4", "U+1D7D5", "U+1D7D6", "U+1D7D7">>,
    <<"U+1D7D8", "U+1D7D9", "U+1D7DA", "U+1D7DB", "U+1D7DC", "U+1D7DD", "U+1D7DE", "U+1D7DF", "U+1D7E0", "U+1D7E1">>,
    <<"U+1D7E2", "U+1D7E3", "U+1D7E4", "U+1D7E5", "U+1D7E6", "U+1D7E7", "U+1D7E8", "U+1D7E9", "U+1D7EA", "U+1D7EB">>,
    <<"U+1D7EC", "U+1D7ED", "U+1D7EE", "U+1D7EF", "U+1D7F0", "U+1D7F1", "U+1D7F2", "U+1D7F3", "U+1D7F4", "U+1D7F5">>,
    <<"U+1D7F6", "U+1D7F7", "U+1D7F8", "U+1D7F9", "U+1D7FA", "U+1D7FB", "U+1D7FC", "U+1D7FD", "U+1D7FE", "U+1D7FF">>,
    <<"U+1E140", "U+1E141", "U+1E142", "U+1E143", "U+1E144", "U+1E145", "U+1E146", "U+1E147", "U+1E148", "U+1E149">>,
    <<"U+1E2F0", "U+1E2F1", "U+1E2F2", "U+1E2F3", "U+1E2F4", "U+1E2F5", "U+1E2F6", "U+1E2F7", "U+1E2F8", "U+1E2F9">>,
    <<"U+1E950", "U+1E951", "U+1E952", "U+1E953", "U+1E954", "U+1E955", "U+1E956", "U+1E957", "U+1E958", "U+1E959">>,
    <<"U+1FBF0", "U+1FBF1", "U+1FBF2", "U+1FBF3", "U+1FBF4", "U+1FBF5", "U+1FBF6", "U+1FBF7", "U+1FBF8", "U+1FBF9">>
>>

\* [0-9]
AsciiDigit == {DigitRows[1][i] : i \in 1..10}

\* \d in a str pattern: every decimal digit of Unicode.
Digit == UNION {{DigitRows[r][i] : i \in 1..10} : r \in DOMAIN DigitRows}

Lower == {"a", "b", "c", "d", "e", "f", "g", "h", "i", "j", "k", "l", "m", "n", "o", "p", "q", "r", "s", "t", "u", "v", "w", "x", "y", "z"}

Upper == {"A", "B", "C", "D", "E", "F", "G", "H", "I", "J", "K", "L", "M", "N", "O", "P", "Q", "R", "S", "T", "U", "V", "W", "X", "Y", "Z"}

\* [A-Za-z_]
IdStart == Lower \cup Upper \cup {"_"}

\* [A-Za-z0-9_]
IdChar == IdStart \cup AsciiDigit

\* [ \t]
Blank == {" ", "\t"}

\* 0-based character access, src[i] in Python.
At(s, i) == s[i + 1]

\* s[a:b] in Python, for 0 <= a <= b <= len(s).
Slice(s, a, b) == SubSeq(s, a + 1, b)

\* A keyword set that lacks "if" (a keyword left out of the set).
keywords_without_if ==
    {<<"i","n","t">>, <<"f","l","o","a","t">>, <<"c","h","a","r">>,
     <<"v","o","i","d">>, <<"e","l","s","e">>, <<"f","o","r">>}

\* self.keywords
keywords == {
    <<"i","n","t">>, <<"f","l","o","a","t">>, <<"d","o","u","b","l","e">>,
    <<"c","h","a","r">>, <<"v","o","i","d">>, <<"i","f">>,
    <<"e","l","s","e">>, <<"w","h","i","l","e">>, <<"f","o","r">>,
    <<"r","e","t","u","r","n">>, <<"s","w","i","t","c","h">>, <<"c","a","s","e">>,
    <<"d","e","f","a","u","l","t">>, <<"b","r","e","a","k">>, <<"c","o","n","t","i","n","u","e">>,
    <<"s","t","r","u","c","t">>, <<"u","n","i","o","n">>, <<"e","n","u","m">>,
    <<"t","y","p","e","d","e","f">>, <<"c","o","n","s","t">>, <<"s","t","a","t","i","c">>,
    <<"e","x","t","e","r","n">>, <<"g","o","t","o">>, <<"s","i","z","e","o","f">>
}

\* self.operators_map: category -> set of lexemes
operators_map ==
    [ARITH_OP  |-> {<<"+">>, <<"-">>, <<"*">>, <<"/">>, <<"%">>},
     REL_OP    |-> {<<"=","=">>, <<"!","=">>, <<"<">>, <<"<","=">>, <<">">>, <<">","=">>},
     LOGIC_OP  |-> {<<"&","&">>, <<"|","|">>, <<"!">>},
     BIT_OP    |-> {<<"&">>, <<"|">>, <<"^">>, <<"~">>, <<"<","<">>, <<">",">">>},
     ASSIGN_OP |-> {<<"=">>, <<"+","=">>, <<"-","=">>, <<"*","=">>, <<"/","=">>,
                    <<"%","=">>, <<"&","=">>, <<"|","=">>, <<"^","=">>,
                    <<"<","<","=">>, <<">",">","=">>},
     INCDEC    |-> {<<"+","+">>, <<"-","-">>},
     ARROW     |-> {<<"-",">">>},
     ELLIPSIS  |-> {<<".",".",".">>},
     TERNARY   |-> {<<"?">>, <<":">>}]

\* self.delimiters_map: category -> set of lexemes
delimiters_map ==
    [LPAREN    |-> {<<"(">>}, RPAREN   |-> {<<")">>},
     LBRACE    |-> {<<"{">>}, RBRACE   |-> {<<"}">>},
     LBRACKET  |-> {<<"[">>}, RBRACKET |-> {<<"]">>},
     SEMICOLON |-> {<<";">>},
     COMMA     |-> {<<",">>},
     DOT       |-> {<<".">>}]

\* The keys of self.flat_op_to_cat: every lexeme of the two maps.
OpLexemes ==
    UNION {operators_map[c] : c \in DOMAIN operators_map}
      \cup UNION {delimiters_map[c] : c \in DOMAIN delimiters_map}

\* self.flat_op_to_cat: lexeme -> category.  No lexeme occurs under two
\* categories, so the order in which the two loops fill the dict is immaterial.
flat_op_to_cat ==
    [lex \in OpLexemes |->
        IF \E c \in DOMAIN operators_map : lex \in operators_map[c]
        THEN CHOOSE c \in DOMAIN operators_map : lex \in operators_map[c]
        ELSE CHOOSE c \in DOMAIN delimiters_map : lex \in delimiters_map[c]]

\* Lexer.categorize_op_or_delim
categorize_op_or_delim(lexeme) ==
    IF lexeme \in DOMAIN flat_op_to_cat
    THEN flat_op_to_cat[lexeme]
    ELSE "UNKNOWN_OP_DELIM"

\* ---------------------------------------------------- regular expressions
\* Length of the longest run of characters of class C at offset p (C*).
RunLen(s, p, C) ==
    LET stop == {i \in p..(Len(s) - 1) : At(s, i) \notin C}
    IN  IF p >= Len(s) THEN 0
        ELSE IF stop = {} THEN Len(s) - p
        ELSE (CHOOSE i \in stop : \A j \in stop : i <= j) - p

\* Length matched by ".*" at offset p: up to, not including, the next "\n".
LineRest(s, p) ==
    LET stop == {i \in p..(Len(s) - 1) : At(s, i) = "\n"}
    IN  IF p >= Len(s) THEN 0
        ELSE IF stop = {} THEN Len(s) - p
        ELSE (CHOOSE i \in stop : \A j \in stop : i <= j) - p

\* TRUE iff the literal lit occurs in s at offset p.
StartsWith(s, p, lit) ==
    /\ p + Len(lit) <= Len(s)
    /\ Slice(s, p, p + Len(lit)) = lit

\* An alternation of literals a1|a2|...: the first alternative that matches.
RECURSIVE FirstLit(_, _, _)
FirstLit(s, p, alts) ==
    IF alts = <<>> THEN 0
    ELSE IF StartsWith(s, p, Head(alts)) THEN Len(Head(alts))
    ELSE FirstLit(s, p, Tail(alts))

\* "^" under re.MULTILINE: start of the text or just after a newline.
LineStart(s, p) == p = 0 \/ At(s, p - 1) = "\n"

\* ("PP_DIRECTIVE", r"^[ \t]*\#.*")
PP_DIRECTIVE(s, p) ==
    IF LineStart(s, p)
    THEN LET w == RunLen(s, p, Blank)
         IN  IF p + w < Len(s) /\ At(s, p + w) = "#"
             THEN w + 1 + LineRest(s, p + w + 1)
             ELSE 0
    ELSE 0

\* ("COMMENT_BLOCK", r"/\*[\s\S]*?\*/"): non-greedy, up to the first "*/".
COMMENT_BLOCK(s, p) ==
    IF StartsWith(s, p, <<"/", "*">>)
    THEN LET ends == {q \in (p + 2)..(Len(s) - 2) : StartsWith(s, q, <<"*", "/">>)}
         IN  IF ends = {} THEN 0
             ELSE (CHOOSE q \in ends : \A r \in ends : q <= r) + 2 - p
    ELSE 0

\* ("COMMENT_LINE", r"//.*")
COMMENT_LINE(s, p) ==
    IF StartsWith(s, p, <<"/", "/">>) THEN 2 + LineRest(s, p + 2) ELSE 0

\* The body (?:\\.|[^"\\\n])* of STRING: the offset at which it stops.
\* A backslash is consumed only by \\. and then takes the next character
\* with it, unless that is a newline or the end of the text.
RECURSIVE StringBody(_, _)
StringBody(s, q) ==
    IF q >= Len(s) THEN q
    ELSE IF At(s, q) = "\\"
         THEN IF q + 1 < Len(s) /\ At(s, q + 1) # "\n"
              THEN StringBody(s, q + 2)
              ELSE q
    ELSE IF At(s, q) \in {"\"", "\n"} THEN q
    ELSE StringBody(s, q + 1)

\* ("STRING", r"\"(?:\\.|[^\"\\\n])*\"")  (STRING is a TLA+ keyword)
STRING_RE(s, p) ==
    IF At(s, p) = "\""
    THEN LET e == StringBody(s, p + 1)
         IN  IF e < Len(s) /\ At(s, e) = "\"" THEN e + 1 - p ELSE 0
    ELSE 0

\* ("CHAR", r"'(?:\\.|[^'\\\n])'"): exactly one item between the quotes.
CHAR(s, p) ==
    IF At(s, p) # "'" THEN 0
    ELSE IF /\ p + 3 < Len(s)
            /\ At(s, p + 1) = "\\"
            /\ At(s, p + 2) # "\n"
            /\ At(s, p + 3) = "'"
         THEN 4
    ELSE IF /\ p + 2 < Len(s)
            /\ At(s, p + 1) \notin {"'", "\\", "\n"}
            /\ At(s, p + 2) = "'"
         THEN 3
    ELSE 0

\* ("NUM_ID_ERROR", r"\d+[A-Za-z_][A-Za-z0-9_]*")
NUM_ID_ERROR(s, p) ==
    LET d == RunLen(s, p, Digit)
    IN  IF d > 0 /\ p + d < Len(s) /\ At(s, p + d) \in IdStart
        THEN d + RunLen(s, p + d, IdChar)
        ELSE 0

\* ("NUMBER_COMMA", r"\d+,\d+")
NUMBER_COMMA(s, p) ==
    LET d == RunLen(s, p, Digit)
    IN  IF d > 0 /\ p + d < Len(s) /\ At(s, p + d) = ","
           /\ RunLen(s, p + d + 1, Digit) > 0
        THEN d + 1 + RunLen(s, p + d + 1, Digit)
        ELSE 0

\* ("ELLIPSIS", r"\.\.\.")
ELLIPSIS(s, p) == FirstLit(s, p, << <<".", ".", ".">> >>)

\* ("OP_3", r"<<=|>>=")
OP_3(s, p) == FirstLit(s, p, << <<"<","<","=">>, <<">",">","=">> >>)

\* ("OP_2", r"==|!=|<=|>=|\+=|-=|\*=|/=|%=|&=|\|=|\^=|<<|>>|&&|\|\||\+\+|--|->")
OP_2(s, p) ==
    FirstLit(s, p,
        << <<"=","=">>, <<"!","=">>, <<"<","=">>, <<">","=">>, <<"+","=">>,
           <<"-","=">>, <<"*","=">>, <<"/","=">>, <<"%","=">>, <<"&","=">>,
           <<"|","=">>, <<"^","=">>, <<"<","<">>, <<">",">">>, <<"&","&">>,
           <<"|","|">>, <<"+","+">>, <<"-","-">>, <<"-",">">> >>)

\* ("OP_1", r"[+\-*/%<>=!&|^~?:]")
OP_1(s, p) ==
    IF At(s, p) \in {"+", "-", "*", "/", "%", "<", ">", "=", "!", "&", "|",
                     "^", "~", "?", ":"}
    THEN 1 ELSE 0

\* The character class [()\[\]{};,\.] of DELIM (also used by re.fullmatch in
\* the fallback of tokenize).
DelimClass == {"(", ")", "[", "]", "{", "}", ";", ",", "."}

\* ("DELIM", r"[()\[\]{};,\.]")
DELIM(s, p) == IF At(s, p) \in DelimClass THEN 1 ELSE 0

\* ("FLOAT", r"\d+\.\d+")
FLOAT(s, p) ==
    LET d == RunLen(s, p, Digit)
    IN  IF d > 0 /\ p + d < Len(s) /\ At(s, p + d) = "."
           /\ RunLen(s, p + d + 1, Digit) > 0
        THEN d + 1 + RunLen(s, p + d + 1, Digit)
        ELSE 0

\* ("INT", r"\d+")
INT(s, p) == RunLen(s, p, Digit)

\* ("ID", r"[A-Za-z_][A-Za-z0-9_]*")
ID(s, p) ==
    IF At(s, p) \in IdStart THEN 1 + RunLen(s, p + 1, IdChar) ELSE 0

\* ("NEWLINE", r"\n+")
NEWLINE(s, p) == RunLen(s, p, {"\n"})

\* ("SKIP", r"[ \t]+")
SKIP(s, p) == RunLen(s, p, Blank)

\* ("MISMATCH", r"."): any character but a newline.
MISMATCH(s, p) == IF At(s, p) # "\n" THEN 1 ELSE 0

\* token_specification with the numeric error patterns placed after the
\* number patterns.
token_specification_numbers_first ==
    << "PP_DIRECTIVE", "COMMENT_BLOCK", "COMMENT_LINE", "STRING", "CHAR",
       "ELLIPSIS", "OP_3", "OP_2", "OP_1", "DELIM", "FLOAT", "INT",
       "NUM_ID_ERROR", "NUMBER_COMMA", "ID", "NEWLINE", "SKIP", "MISMATCH" >>

\* token_specification with the single-character operators placed before
\* the longer ones.
token_specification_short_ops_first ==
    << "PP_DIRECTIVE", "COMMENT_BLOCK", "COMMENT_LINE", "STRING", "CHAR",
       "NUM_ID_ERROR", "NUMBER_COMMA", "OP_1", "DELIM", "ELLIPSIS", "OP_3",
       "OP_2", "FLOAT", "INT", "ID", "NEWLINE", "SKIP", "MISMATCH" >>

\* The names of token_specification, in its order: the order of the
\* alternatives of the combined regular expression.
token_specification ==
    << "PP_DIRECTIVE", "COMMENT_BLOCK", "COMMENT_LINE", "STRING", "CHAR",
       "NUM_ID_ERROR", "NUMBER_COMMA", "ELLIPSIS", "OP_3", "OP_2", "OP_1",
       "DELIM", "FLOAT", "INT", "ID", "NEWLINE", "SKIP", "MISMATCH" >>

\* Length matched at offset p < Len(s) by the alternative called name
\* (0: the alternative does not match there; no alternative matches empty).
Pattern(name, s, p) ==
    CASE name = "PP_DIRECTIVE"  -> PP_DIRECTIVE(s, p)
      [] name = "COMMENT_BLOCK" -> COMMENT_BLOCK(s, p)
      [] name = "COMMENT_LINE"  -> COMMENT_LINE(s, p)
      [] name = "STRING"        -> STRING_RE(s, p)
      [] name = "CHAR"          -> CHAR(s, p)
      [] name = "NUM_ID_ERROR"  -> NUM_ID_ERROR(s, p)
      [] name = "NUMBER_COMMA"  -> NUMBER_COMMA(s, p)
      [] name = "ELLIPSIS"      -> ELLIPSIS(s, p)
      [] name = "OP_3"          -> OP_3(s, p)
      [] name = "OP_2"          -> OP_2(s, p)
      [] name = "OP_1"          -> OP_1(s, p)
      [] name = "DELIM"         -> DELIM(s, p)
      [] name = "FLOAT"         -> FLOAT(s, p)
      [] name = "INT"           -> INT(s, p)
      [] name = "ID"            -> ID(s, p)
      [] name = "NEWLINE"       -> NEWLINE(s, p)
      [] name = "SKIP"          -> SKIP(s, p)
      [] name = "MISMATCH"      -> MISMATCH(s, p)

\* tok_regex matched at offset p < Len(s): the first alternative of spec, in
\* order, that matches there, as mo.lastgroup and the length of mo.group().
\* kind "NONE" with len 0 when no alternative matches at p.
RECURSIVE MatchFrom(_, _, _)
MatchFrom(spec, s, p) ==
    IF spec = <<>> THEN [kind |-> "NONE", len |-> 0]
    ELSE LET n == Pattern(Head(spec), s, p)
         IN  IF n > 0 THEN [kind |-> Head(spec), len |-> n]
             ELSE MatchFrom(Tail(spec), s, p)

tok_regex(s, p) == MatchFrom(token_specification, s, p)

\* One item of tok_regex.finditer(s) resumed at offset p: the match at the
\* first offset q >= p where some alternative matches (re skips an offset at
\* which nothing matches), or kind "NONE" when the iteration is over.
RECURSIVE finditer(_, _)
finditer(s, p) ==
    IF p >= Len(s) THEN [kind |-> "NONE", start |-> p, len |-> 0]
    ELSE LET m == tok_regex(s, p)
         IN  IF m.kind # "NONE"
             THEN [kind |-> m.kind, start |-> p, len |-> m.len]
             ELSE finditer(s, p + 1)

\* ------------------------------------------------------ helper functions
\* get_line_col with "no newline before pos" taken as offset 0 instead of -1.
get_line_col_from_zero(s, p) ==
    LET nls     == {i \in 0..(p - 1) : At(s, i) = "\n"}
        last_nl == IF nls = {} THEN 0
                   ELSE CHOOSE i \in nls : \A j \in nls : j <= i
    IN  [line |-> Cardinality(nls) + 1, col |-> p - last_nl]

\* Lexer.get_line_col: line = src.count('\n', 0, pos) + 1,
\* col = pos - src.rfind('\n', 0, pos), rfind giving -1 when there is none.
get_line_col(s, p) ==
    LET nls     == {i \in 0..(p - 1) : At(s, i) = "\n"}
        last_nl == IF nls = {} THEN -1
                   ELSE CHOOSE i \in nls : \A j \in nls : j <= i
    IN  [line |-> Cardinality(nls) + 1, col |-> p - last_nl]

\* str.rstrip("\r\n"): drop every trailing "\r" and "\n".
RECURSIVE rstrip(_)
rstrip(lex) ==
    IF lex # <<>> /\ lex[Len(lex)] \in {"\r", "\n"}
    THEN rstrip(SubSeq(lex, 1, Len(lex) - 1))
    ELSE lex

\* The ASCII digits, by value (str(n) writes these).
DigitSeq == DigitRows[1]

\* The value of a decimal digit, as int() and float() read it.
DigitValue ==
    [c \in Digit |->
        CHOOSE d \in 0..9 : \E r \in DOMAIN DigitRows : DigitRows[r][d + 1] = c]

DigitVal(c) == DigitValue[c]

\* The integer denoted by a short run of decimal digits (the N of "idN").
RECURSIVE DecValue(_)
DecValue(ds) ==
    IF ds = <<>> THEN 0
    ELSE 10 * DecValue(SubSeq(ds, 1, Len(ds) - 1)) + DigitVal(ds[Len(ds)])

\* str(n) for n >= 0, as in the f-string f"id{self.next_id}".
RECURSIVE DecString(_)
DecString(n) ==
    IF n < 10 THEN <<DigitSeq[n + 1]>>
    ELSE Append(DecString(n \div 10), DigitSeq[(n % 10) + 1])

\* CPython refuses int(str) beyond this many digits (ValueError), which the
\* try/except around int(lexeme) turns into an ERROR token.
IntMaxStrDigits == 4300

\* ---- float(lexeme): the IEEE 754 binary64 value nearest to the decimal
\* (ties to even), as CPython computes it.  Whole numbers of any size are
\* kept as sequences of decimal digit values, most significant first,
\* without leading zeros (<<>> is zero).  Operators that walk a number
\* split it in halves, so that a lexeme of hundreds of digits is computed
\* with a recursion of small depth.

BigTrim(a) ==
    IF \A i \in DOMAIN a : a[i] = 0 THEN <<>>
    ELSE SubSeq(a, CHOOSE i \in DOMAIN a :
                      a[i] # 0 /\ \A j \in 1..(i - 1) : a[j] = 0, Len(a))

\* -1, 0, 1 as a < b, a = b, a > b (a and b without leading zeros).
BigCmp(a, b) ==
    IF Len(a) # Len(b) THEN (IF Len(a) < Len(b) THEN -1 ELSE 1)
    ELSE IF \A k \in DOMAIN a : a[k] = b[k] THEN 0
    ELSE LET i == CHOOSE k \in DOMAIN a :
                     a[k] # b[k] /\ \A j \in 1..(k - 1) : a[j] = b[j]
         IN  IF a[i] < b[i] THEN -1 ELSE 1

\* 2 * a: a digit of the double takes a carry exactly when the digit after
\* it is 5 or more.
BigDouble(a) ==
    LET n    == Len(a)
        body == [i \in 1..n |->
                    (2 * a[i] + (IF i < n /\ a[i + 1] >= 5 THEN 1 ELSE 0)) % 10]
    IN  IF n > 0 /\ a[1] >= 5 THEN <<1>> \o body ELSE SubSeq(body, 1, n)

\* a + 1
BigSucc(a) ==
    IF \A i \in DOMAIN a : a[i] = 9
    THEN <<1>> \o [i \in DOMAIN a |-> 0]
    ELSE LET p == CHOOSE i \in DOMAIN a :
                     a[i] # 9 /\ \A j \in (i + 1)..Len(a) : a[j] = 9
         IN  SubSeq([i \in DOMAIN a |->
                        IF i < p THEN a[i] ELSE IF i = p THEN a[i] + 1 ELSE 0],
                    1, Len(a))

\* One digit of a sum: x + y + c.
BigAddDigit(x, y, c) ==
    [digits |-> <<(x + y + c) % 10>>, carry |-> (x + y + c) \div 10]

\* The sum of a number in two parts, from the sums of its low and of its
\* high part for a carry in of 0 and of 1.
BigAddJoin(low, high, c) ==
    LET l == low[c + 1]
        u == high[l.carry + 1]
    IN  [digits |-> u.digits \o l.digits, carry |-> u.carry]

\* The digits of a + b + c and the carry out, for a and b of one length
\* (at least 1) and for c = 0 and c = 1.
RECURSIVE BigAddBoth(_, _)
BigAddBoth(a, b) ==
    IF Len(a) = 1
    THEN <<BigAddDigit(a[1], b[1], 0), BigAddDigit(a[1], b[1], 1)>>
    ELSE LET n    == Len(a)
             h    == n \div 2
             low  == BigAddBoth(SubSeq(a, h + 1, n), SubSeq(b, h + 1, n))
             high == BigAddBoth(SubSeq(a, 1, h), SubSeq(b, 1, h))
         IN  <<BigAddJoin(low, high, 0), BigAddJoin(low, high, 1)>>

\* s with leading zeros, to length n.
BigPad(s, n) ==
    LET pad == n - Len(s)
    IN  SubSeq([i \in 1..n |-> IF i <= pad THEN 0 ELSE s[i - pad]], 1, n)

\* a + b
BigAdd(a, b) ==
    LET n == IF Len(a) > Len(b) THEN Len(a) ELSE Len(b)
        r == BigAddBoth(BigPad(a, n), BigPad(b, n))[1]
    IN  IF n = 0 THEN <<>> ELSE BigTrim(<<r.carry>> \o r.digits)

\* One digit of a difference: x - y - c.
BigSubDigit(x, y, c) ==
    [digits |-> <<(x + 10 - y - c) % 10>>,
     carry  |-> IF x < y + c THEN 1 ELSE 0]

\* The digits of a - b - c and the borrow out, for a and b of one length
\* (at least 1) and for c = 0 and c = 1.
RECURSIVE BigSubBoth(_, _)
BigSubBoth(a, b) ==
    IF Len(a) = 1
    THEN <<BigSubDigit(a[1], b[1], 0), BigSubDigit(a[1], b[1], 1)>>
    ELSE LET n    == Len(a)
             h    == n \div 2
             low  == BigSubBoth(SubSeq(a, h + 1, n), SubSeq(b, h + 1, n))
             high == BigSubBoth(SubSeq(a, 1, h), SubSeq(b, 1, h))
         IN  <<BigAddJoin(low, high, 0), BigAddJoin(low, high, 1)>>

\* a - b for a >= b.
BigSub(a, b) ==
    IF a = <<>> THEN <<>>
    ELSE BigTrim(BigSubBoth(a, BigPad(b, Len(a)))[1].digits)

\* a * 2^n, by halves of n.
RECURSIVE BigShift(_, _)
BigShift(a, n) ==
    IF a = <<>> \/ n = 0 THEN a
    ELSE IF n = 1 THEN BigDouble(a)
    ELSE BigShift(BigShift(a, n \div 2), n - n \div 2)

\* The bits hi down to lo of the quotient of r by d, as the number q they
\* spell, and what is left of r: r = q * d * 2^lo + the rest, for
\* r < d * 2^(hi+1).  Bit i is set when d * 2^i fits into what is left.
RECURSIVE BigDivBits(_, _, _, _)
BigDivBits(r, d, hi, lo) ==
    IF hi = lo
    THEN LET dd == BigShift(d, lo)
         IN  IF BigCmp(r, dd) >= 0
             THEN [q |-> <<1>>, r |-> BigSub(r, dd)]
             ELSE [q |-> <<>>, r |-> r]
    ELSE LET mid == (hi + lo) \div 2
             up  == BigDivBits(r, d, hi, mid + 1)
             low == BigDivBits(up.r, d, mid, lo)
         IN  [q |-> BigAdd(BigShift(up.q, mid + 1 - lo), low.q), r |-> low.r]

\* binary64: 53 bits of significand, exponents of its last bit from
\* -1074 (subnormal) to 971.
MantBits == 53

MinExp == -1074

MaxExp == 971

\* Quotient and remainder of a by d > 0, for a quotient below 2^53.
BigDivMod(a, d) == BigDivBits(a, d, MantBits - 1, 0)

\* The largest step the search for the exponent takes at once.
MaxStep == 1024

\* The scaling of num/den to a significand below 2^53 (lo is den * 2^52):
\* while num >= 2 * lo, den and lo double and the exponent e goes up by one,
\* until e passes MaxExp.  s of these steps are taken at once while
\* num >= lo * 2^s, which a num shorter than lo * 2^s (2^10 > 10^3) rules
\* out.
RECURSIVE ScaleUp(_, _, _, _, _)
ScaleUp(num, den, lo, e, s) ==
    IF /\ e + s <= MaxExp + 1
       /\ Len(num) >= Len(lo) + 3 * (s \div 10)
       /\ BigCmp(num, BigShift(lo, s)) >= 0
    THEN ScaleUp(num, BigShift(den, s), BigShift(lo, s), e + s, s)
    ELSE IF s > 1 THEN ScaleUp(num, den, lo, e, s \div 4)
    ELSE [num |-> num, den |-> den, e |-> e]

\* The scaling of num/den to a significand of at least 2^52: while
\* num < lo, num doubles and e goes down by one, not below MinExp.  s of
\* these steps are taken at once while num * 2^(s-1) < lo.
RECURSIVE ScaleDown(_, _, _, _, _)
ScaleDown(num, den, lo, e, s) ==
    IF /\ e - s >= MinExp
       /\ Len(num) + 3 * ((s - 1) \div 10) <= Len(lo)
       /\ BigCmp(BigShift(num, s - 1), lo) < 0
    THEN ScaleDown(BigShift(num, s), den, lo, e - s, s)
    ELSE IF s > 1 THEN ScaleDown(num, den, lo, e, s \div 4)
    ELSE [num |-> num, den |-> den, e |-> e]

FloatInf == [inf |-> TRUE, mant |-> <<>>, exp |-> 0]

FloatZero == [inf |-> FALSE, mant |-> <<>>, exp |-> 0]

\* The binary64 nearest to num/den (den > 0), as mant * 2^exp.
Binary64(num, den) ==
    IF num = <<>> THEN FloatZero
    ELSE LET lo   == BigShift(den, MantBits - 1)
             up   == ScaleUp(num, den, lo, 0, MaxStep)
             sc   == IF up.e > 0 THEN up
                     ELSE ScaleDown(num, den, lo, 0, MaxStep)
             dm   == BigDivMod(sc.num, sc.den)
             half == BigCmp(BigDouble(dm.r), sc.den)
             odd  == dm.q # <<>> /\ dm.q[Len(dm.q)] % 2 = 1
             m    == IF half > 0 \/ (half = 0 /\ odd)
                     THEN BigSucc(dm.q) ELSE dm.q
             top  == BigShift(<<1>>, MantBits)
             m2   == IF m = top THEN BigShift(<<1>>, MantBits - 1) ELSE m
             e2   == IF m = top THEN sc.e + 1 ELSE sc.e
         IN  IF sc.e > MaxExp \/ e2 > MaxExp THEN FloatInf
             ELSE IF m2 = <<>> THEN FloatZero
             ELSE [inf |-> FALSE, mant |-> m2, exp |-> e2]

\* int(lexeme) for a run of decimal digits: a whole number of any size, as
\* the decimal digits of its value.
int(lexeme) == BigTrim([i \in DOMAIN lexeme |-> DigitVal(lexeme[i])])

\* float(lexeme) for lexeme = digits "." digits: the digits before and
\* after the period, over 10 to the number of digits after it.
float(lexeme) ==
    LET d   == CHOOSE i \in DOMAIN lexeme : lexeme[i] = "."
        all == SubSeq(lexeme, 1, d - 1) \o SubSeq(lexeme, d + 1, Len(lexeme))
    IN  Binary64(int(all),
                 <<1>> \o [i \in 1..(Len(lexeme) - d) |-> 0])

\* Token attributes (the third component of a token tuple).
None == [tag |-> "None"]

StrAttr(chars) == [tag |-> "str", chars |-> chars]

MsgAttr(text) == [tag |-> "msg", text |-> text]

\* An int, as the decimal digits of its value (<<>> is 0).
IntAttr(n) == [tag |-> "int", int |-> n]

\* A float: infinity, or mant * 2^exp with mant in decimal digits.
FloatAttr(v) == [tag |-> "float", inf |-> v.inf, mant |-> v.mant, exp |-> v.exp]

\* The diagnostics of the ERROR tokens.
MsgNumId == "identificador não pode começar com número"

MsgNumberComma == "vírgula como separador decimal (use ponto)"

MsgFloat == "float inválido"

MsgInt == "inteiro inválido"

MsgMismatch == "caractere inesperado"

\* A token tuple (tipo, lexema, attr, line, col).
Token(kind, lexeme, attr, lc) ==
    [kind |-> kind, lexeme |-> lexeme, attr |-> attr,
     line |-> lc.line, col |-> lc.col]

\* add_symbol that forgets self.next_id += 1.
add_symbol_same_id(syms, nid, name) ==
    IF name \notin DOMAIN syms
    THEN LET assigned == <<"i", "d">> \o DecString(nid)
         IN  [symbols |-> [n \in DOMAIN syms \cup {name} |->
                              IF n = name THEN [id |-> assigned, count |-> 1]
                              ELSE syms[n]],
              next_id |-> nid,
              ret     |-> assigned]
    ELSE [symbols |-> [syms EXCEPT ![name].count = @ + 1],
          next_id |-> nid,
          ret     |-> syms[name].id]

\* add_symbol that forgets to count a further occurrence.
add_symbol_no_count(syms, nid, name) ==
    IF name \notin DOMAIN syms
    THEN LET assigned == <<"i", "d">> \o DecString(nid)
         IN  [symbols |-> [n \in DOMAIN syms \cup {name} |->
                              IF n = name THEN [id |-> assigned, count |-> 1]
                              ELSE syms[n]],
              next_id |-> nid + 1,
              ret     |-> assigned]
    ELSE [symbols |-> syms, next_id |-> nid, ret |-> syms[name].id]

\* Lexer.add_symbol: the table and counter after the call, and its result.
add_symbol(syms, nid, name) ==
    IF name \notin DOMAIN syms
    THEN LET assigned == <<"i", "d">> \o DecString(nid)
         IN  [symbols |-> [n \in DOMAIN syms \cup {name} |->
                              IF n = name THEN [id |-> assigned, count |-> 1]
                              ELSE syms[n]],
              next_id |-> nid + 1,
              ret     |-> assigned]
    ELSE [symbols |-> [syms EXCEPT ![name].count = @ + 1],
          next_id |-> nid,
          ret     |-> syms[name].id]

\* The category computed for an operator or delimiter lexeme in tokenize,
\* fallback for a lexeme missing from the maps included.
OpCategory(lexeme) ==
    LET cat == categorize_op_or_delim(lexeme)
    IN  IF cat # "UNKNOWN_OP_DELIM" THEN cat
        ELSE IF lexeme \in {<<"(">>, <<")">>, <<"{">>, <<"}">>, <<"[">>, <<"]">>}
             THEN CASE lexeme = <<"(">> -> "LPAREN"
                    [] lexeme = <<"}">> -> "RBRACE"
                    [] lexeme = <<"{">> -> "LBRACE"
                    [] lexeme = <<")">> -> "RPAREN"
                    [] lexeme = <<"[">> -> "LBRACKET"
                    [] lexeme = <<"]">> -> "RBRACKET"
        ELSE IF Len(lexeme) = 1 /\ lexeme[1] \in DelimClass THEN "DELIM"
        ELSE "OP"

\* ------------------------------------------------------------ input texts
\* Every text over alphabet A of length at most n.
Texts(A, n) == UNION {[1..k -> A] : k \in 0..n}

\* Identifiers, the keyword "if", numbers, 12ab and 3,14.
AlphaWords == {"i", "f", "_", "1", " ", ",", "."}

\* String and character literals, closed or not.
AlphaQuotes == {"\"", "'", "\\", "a", "\n"}

\* Directives, comments and line ends.
AlphaLines == {"#", " ", "\r", "\n", "/", "*", "x"}

\* Runs of operator characters.
AlphaOps == {"<", ">", "=", "-", ".", "1"}

\* Numbers written with a decimal digit from outside ASCII (ARABIC-INDIC
\* DIGIT THREE), which \d matches and [A-Za-z0-9_] does not.
AlphaDigits == {"1", "U+0663", "a", ".", ","}

\* Numbers with more digits than a binary64 holds.
LongNumbers == {
    <<"0",".","1","0","0","0","0","0","0","0","0","0","0","0","0","0","0","0","0","0","0","1">>,
    <<"9","0","0","7","1","9","9","2","5","4","7","4","0","9","9","3",".","0">>
}

\* Lines of the sample program of __main__, the examples of the
\* specification, and short texts in their style (a directive ended by
\* "\r\n", a comment over two lines, an identifier used on two lines).
Samples == {
    <<"x"," ","x"," ","x">>,
    <<"i","n","t"," ","i","n","t","_"," ","="," ","1",";">>,
    <<"i","n","t"," ","1","2","3","a","b","c"," ","="," ","1","0",";">>,
    <<"\"","a","b","c">>,
    <<"'","a","b","'">>,
    <<"c","h","a","r"," ","b","a","d"," ","="," ","'","a","b","'",";">>,
    <<"c","h","a","r"," ","s","[","]"," ","="," ","\"","t","e","x","t","o"," ","s","e","m"," ","f","e","c","h","a","r","\n">>,
    <<"f","l","o","a","t"," ","e","1"," ","="," ","3",",","1","4",";">>,
    <<"#","d","e","f","i","n","e"," ","P","I"," ","3",".","1","4","\r","\n">>,
    <<"a"," ","-",">"," ","b",";">>,
    <<"a"," ",".",".","."," ","b",";">>,
    <<"c","h","a","r"," ","c"," ","="," ","'","\\","n","'",";">>,
    <<"p","r","i","n","t","f","(","\"","v","a","l","o","r",":"," ","%","d","\\","n","\"",","," ","y",")",";">>,
    <<"y"," ","+","="," ","5",";">>,
    <<"/","*"," ","a","\n"," ","b"," ","*","/"," ","x"," ","/","/"," ","c","\n">>,
    <<"i","n","t"," ","y"," ","="," ","x",";","\n","y"," ","+","="," ","5",";">>
}

Inputs ==
    Texts(AlphaWords, MaxLen) \cup Texts(AlphaQuotes, MaxLen)
      \cup Texts(AlphaLines, MaxLen) \cup Texts(AlphaOps, MaxLen)
      \cup Texts(AlphaDigits, MaxLen)
      \cup OpLexemes \cup Samples \cup LongNumbers

\* ------------------------------------------------------------------ state
VARIABLES
    src,        \* self.src
    tokens,     \* self.tokens
    symbols,    \* self.symbols: name -> [id, count]
    next_id,    \* self.next_id
    pc,         \* "ready": constructed; "scan": inside the loop of tokenize;
                \* "done": tokenize has returned
    mo,         \* the loop variable of tokenize: the current item of finditer
    calls,      \* number of tokenize() calls started on this Lexer
    trace       \* history: the matches handled so far by the current call,
                \* each with the index in tokens of the token it produced
                \* (0 for a skipped match)

vars == <<src, tokens, symbols, next_id, pc, mo, calls, trace>>

\* Value of mo outside the loop.
NoMatch == [kind |-> "NONE", start |-> 0, len |-> 0]

\* Lexer.__init__
Init ==
    /\ src \in Inputs
    /\ tokens = <<>>
    /\ symbols = <<>>
    /\ next_id = 1
    /\ pc = "ready"
    /\ mo = NoMatch
    /\ calls = 0
    /\ trace = <<>>

\* Entry of tokenize(): finditer starts at offset 0.  Nothing else is reset.
Enter ==
    /\ mo' = finditer(src, 0)
    /\ pc' = "scan"
    /\ calls' = calls + 1
    /\ trace' = <<>>
    /\ UNCHANGED <<src, tokens, symbols, next_id>>

\* The first call of tokenize() on a freshly constructed Lexer.
tokenize ==
    /\ pc = "ready"
    /\ Enter

\* A further call of tokenize() on a Lexer that has already scanned.
tokenize_again ==
    /\ pc = "done"
    /\ calls < MaxCalls
    /\ Enter

\* mo.group()
Lexeme(m) == Slice(src, m.start, m.start + m.len)

\* The loop iteration handles a match of one of the given kinds.
Iterates(kinds) ==
    /\ pc = "scan"
    /\ mo.kind \in kinds

\* Move on to the next iteration: finditer resumes after the match.
Advance ==
    /\ mo' = finditer(src, mo.start + mo.len)
    /\ trace' = Append(trace,
           [kind |-> mo.kind, start |-> mo.start, len |-> mo.len,
            tok |-> IF Len(tokens') > Len(tokens) THEN Len(tokens') ELSE 0])
    /\ UNCHANGED <<src, pc, calls>>

\* self.tokens.append(tok), symbol table untouched.
Emit(tok) ==
    /\ tokens' = Append(tokens, tok)
    /\ UNCHANGED <<symbols, next_id>>
    /\ Advance

LineCol(m) == get_line_col(src, m.start)

\* kind in ("COMMENT_BLOCK","COMMENT_LINE","SKIP","NEWLINE"): continue
SkipMatch ==
    /\ Iterates({"COMMENT_BLOCK", "COMMENT_LINE", "SKIP", "NEWLINE"})
    /\ UNCHANGED <<tokens, symbols, next_id>>
    /\ Advance

PPDirective ==
    /\ Iterates({"PP_DIRECTIVE"})
    /\ Emit(Token("PP_DIRECTIVE", rstrip(Lexeme(mo)), None, LineCol(mo)))

NumIdError ==
    /\ Iterates({"NUM_ID_ERROR"})
    /\ Emit(Token("ERROR", Lexeme(mo), MsgAttr(MsgNumId), LineCol(mo)))

NumberComma ==
    /\ Iterates({"NUMBER_COMMA"})
    /\ Emit(Token("ERROR", Lexeme(mo), MsgAttr(MsgNumberComma), LineCol(mo)))

\* content = lexeme[1:-1]
Content(lexeme) == SubSeq(lexeme, 2, Len(lexeme) - 1)

StringLiteral ==
    /\ Iterates({"STRING"})
    /\ Emit(Token("STRING_LITERAL", Lexeme(mo), StrAttr(Content(Lexeme(mo))),
                  LineCol(mo)))

CharLiteral ==
    /\ Iterates({"CHAR"})
    /\ Emit(Token("CHAR_LITERAL", Lexeme(mo), StrAttr(Content(Lexeme(mo))),
                  LineCol(mo)))

\* float(lexeme) does not raise on digits "." digits.
FloatLiteral ==
    /\ Iterates({"FLOAT"})
    /\ Emit(Token("FLOAT_LITERAL", Lexeme(mo), FloatAttr(float(Lexeme(mo))),
                  LineCol(mo)))

IntLiteral ==
    /\ Iterates({"INT"})
    /\ IF Len(Lexeme(mo)) <= IntMaxStrDigits
       THEN Emit(Token("INT_LITERAL", Lexeme(mo), IntAttr(int(Lexeme(mo))),
                       LineCol(mo)))
       ELSE Emit(Token("ERROR", Lexeme(mo), MsgAttr(MsgInt), LineCol(mo)))

Keyword ==
    /\ Iterates({"ID"})
    /\ Lexeme(mo) \in keywords
    /\ Emit(Token("KEYWORD", Lexeme(mo), None, LineCol(mo)))

Identifier ==
    /\ Iterates({"ID"})
    /\ Lexeme(mo) \notin keywords
    /\ LET r == add_symbol(symbols, next_id, Lexeme(mo))
       IN  /\ symbols' = r.symbols
           /\ next_id' = r.next_id
           /\ tokens' = Append(tokens,
                  Token("IDENTIFIER", Lexeme(mo), StrAttr(r.ret), LineCol(mo)))
    /\ Advance

OperatorOrDelimiter ==
    /\ Iterates({"ELLIPSIS", "OP_3", "OP_2", "OP_1", "DELIM"})
    /\ Emit(Token(OpCategory(Lexeme(mo)), Lexeme(mo), None, LineCol(mo)))

Mismatch ==
    /\ Iterates({"MISMATCH"})
    /\ Emit(Token("ERROR", Lexeme(mo), MsgAttr(MsgMismatch), LineCol(mo)))

\* finditer is exhausted: append the EOF token and return self.tokens and
\* self.symbols themselves (the caller holds the two objects, not copies:
\* what a call returned reads as tokens and symbols read now).
AppendEOF ==
    /\ Iterates({"NONE"})
    /\ tokens' = Append(tokens,
           Token("EOF", <<>>, None, get_line_col(src, Len(src))))
    /\ pc' = "done"
    /\ UNCHANGED <<src, symbols, next_id, mo, calls, trace>>

Iteration ==
    \/ SkipMatch
    \/ PPDirective
    \/ NumIdError
    \/ NumberComma
    \/ StringLiteral
    \/ CharLiteral
    \/ FloatLiteral
    \/ IntLiteral
    \/ Keyword
    \/ Identifier
    \/ OperatorOrDelimiter
    \/ Mismatch

\* One scan: Lexer(source).tokenize().
Next ==
    \/ tokenize
    \/ Iteration
    \/ AppendEOF

Spec == Init /\ [][Next]_vars

\* A Lexer whose tokenize() is called up to MaxCalls times.
NextRescan ==
    \/ Next
    \/ tokenize_again

SpecRescan == Init /\ [][NextRescan]_vars

\* =================================================================== claims
\* Vocabulary of the claims, stated apart from the scanner's own tables.

\* The keyword set as the specification lists it (section 4.1).
SpecKeywords == {
    <<"i","n","t">>, <<"f","l","o","a","t">>, <<"d","o","u","b","l","e">>,
    <<"c","h","a","r">>, <<"v","o","i","d">>, <<"i","f">>,
    <<"e","l","s","e">>, <<"w","h","i","l","e">>, <<"f","o","r">>,
    <<"r","e","t","u","r","n">>, <<"s","w","i","t","c","h">>, <<"c","a","s","e">>,
    <<"d","e","f","a","u","l","t">>, <<"b","r","e","a","k">>, <<"c","o","n","t","i","n","u","e">>,
    <<"s","t","r","u","c","t">>, <<"u","n","i","o","n">>, <<"e","n","u","m">>,
    <<"t","y","p","e","d","e","f">>, <<"c","o","n","s","t">>, <<"s","t","a","t","i","c">>,
    <<"e","x","t","e","r","n">>, <<"g","o","t","o">>, <<"s","i","z","e","o","f">>
}

\* Line and column (1-based) reached after reading the text s from 1:1 with
\* running counters: a newline starts a new line, any other character moves
\* one column to the right.
RECURSIVE PositionAfter(_)
PositionAfter(s) ==
    IF s = <<>> THEN [line |-> 1, col |-> 1]
    ELSE LET before == PositionAfter(SubSeq(s, 1, Len(s) - 1))
         IN  IF s[Len(s)] = "\n"
             THEN [line |-> before.line + 1, col |-> 1]
             ELSE [line |-> before.line, col |-> before.col + 1]

\* Indices of the tokens of a given kind.
OfKind(ts, kind) == {i \in DOMAIN ts : ts[i].kind = kind}

\* Indices of the IDENTIFIER tokens with a given lexeme.
Occurrences(ts, name) == {i \in OfKind(ts, "IDENTIFIER") : ts[i].lexeme = name}

\* The distinct IDENTIFIER lexemes of a token sequence.
IdentifierNames(ts) == {ts[i].lexeme : i \in OfKind(ts, "IDENTIFIER")}

\* Index of the first IDENTIFIER token with a given lexeme.
FirstOccurrence(ts, name) ==
    CHOOSE i \in Occurrences(ts, name) : \A j \in Occurrences(ts, name) : i <= j

\* Rank of a name among the distinct identifiers, by first occurrence.
Rank(ts, name) ==
    1 + Cardinality({m \in IdentifierNames(ts) :
                        FirstOccurrence(ts, m) < FirstOccurrence(ts, name)})

\* The number N of a symbol id "idN" (0 when the id has not that form).
IdNumber(id) ==
    IF Len(id) >= 3 /\ SubSeq(id, 1, 2) = <<"i", "d">>
       /\ \A k \in 3..Len(id) : id[k] \in Digit
    THEN DecValue(SubSeq(id, 3, Len(id)))
    ELSE 0

\* The group names that the branches of the loop body of tokenize test for.
HandledKinds ==
    {"COMMENT_BLOCK", "COMMENT_LINE", "SKIP", "NEWLINE", "PP_DIRECTIVE",
     "NUM_ID_ERROR", "NUMBER_COMMA", "STRING", "CHAR", "FLOAT", "INT", "ID",
     "ELLIPSIS", "OP_3", "OP_2", "OP_1", "DELIM", "MISMATCH"}

\* A returned token sequence ends with its only EOF token, which has an
\* empty lexeme and the position of offset len(source).
EndsWithOneEOF(ts, s) ==
    /\ ts # <<>>
    /\ OfKind(ts, "EOF") = {Len(ts)}
    /\ ts[Len(ts)].lexeme = <<>>
    /\ ts[Len(ts)].line = PositionAfter(s).line
    /\ ts[Len(ts)].col = PositionAfter(s).col

\* ----------------------------------------------------------------------
\* C1 (Totality): the scan of any source text terminates without raising,
\* and the token sequence it returns contains exactly one EOF token, which is
\* the last element, has an empty lexeme and carries the line and column of
\* offset len(source).  Termination is stated by its measure: every loop
\* iteration handles a non-empty match that lies within the text and starts
\* no earlier than the previous one ended, so that a scan makes at most
\* len(source) iterations; and every item of the iteration is of a kind that
\* a branch of the loop body handles.
C1_Totality ==
    /\ \A k \in DOMAIN trace :
          /\ trace[k].len >= 1
          /\ trace[k].start + trace[k].len <= Len(src)
          /\ trace[k].start >= IF k = 1 THEN 0
                               ELSE trace[k - 1].start + trace[k - 1].len
    /\ pc = "scan" =>
          mo.start >= IF trace = <<>> THEN 0
                      ELSE trace[Len(trace)].start + trace[Len(trace)].len
    /\ pc = "scan" => mo.kind \in HandledKinds \cup {"NONE"}
    /\ pc = "done" => EndsWithOneEOF(tokens, src)

\* C1 witness: a scan over several lines that met an error has returned.
C1_Witness ==
    /\ pc = "done"
    /\ Len(tokens) >= 3
    /\ OfKind(tokens, "ERROR") # {}
    /\ tokens[Len(tokens)].line >= 2

\* ----------------------------------------------------------------------
\* C3 (Symbol id monotonicity): the symbol table holds exactly one entry per
\* distinct identifier lexeme of the token sequence, the ids are exactly
\* id1..idN with N the number of distinct identifiers (none missing, none
\* used twice, the next one to assign being N + 1), and the entry with id k
\* is the k-th distinct identifier by first occurrence.
C3_SymbolIds ==
    LET names == IdentifierNames(tokens)
        N     == Cardinality(names)
    IN  /\ DOMAIN symbols = names
        /\ {IdNumber(symbols[n].id) : n \in names} = 1..N
        /\ \A n \in names : IdNumber(symbols[n].id) = Rank(tokens, n)
        /\ next_id = N + 1

\* C3 witness: a finished scan with two distinct identifiers, the first of
\* which occurs again after the second.
C3_Witness ==
    /\ pc = "done"
    /\ \E a, b \in DOMAIN symbols :
          /\ IdNumber(symbols[a].id) = 1
          /\ IdNumber(symbols[b].id) = 2
          /\ \E i \in Occurrences(tokens, a) : i > FirstOccurrence(tokens, b)

\* ----------------------------------------------------------------------
\* C4 (Occurrence counting): at every point of a scan and at its end, the
\* count of each symbol-table entry is the number of IDENTIFIER tokens with
\* that lexeme produced so far, and the attribute of every IDENTIFIER token
\* is the id of the entry for its lexeme.
C4_OccurrenceCount ==
    /\ \A n \in DOMAIN symbols :
          symbols[n].count = Cardinality(Occurrences(tokens, n))
    /\ \A i \in OfKind(tokens, "IDENTIFIER") :
          /\ tokens[i].lexeme \in DOMAIN symbols
          /\ tokens[i].attr = StrAttr(symbols[tokens[i].lexeme].id)

\* C4 witness: three occurrences of x: one entry with count 3 and three
\* tokens carrying its id.
C4_Witness ==
    /\ pc = "done"
    /\ DOMAIN symbols = {<<"x">>}
    /\ symbols[<<"x">>].count = 3
    /\ Cardinality({i \in DOMAIN tokens :
                       tokens[i].attr = StrAttr(symbols[<<"x">>].id)}) = 3

\* ----------------------------------------------------------------------
\* C5 (Keyword exclusivity): no IDENTIFIER token has a keyword as lexeme and
\* no symbol-table key is a keyword; every match of the identifier pattern
\* produces one token with the matched lexeme, which is a KEYWORD with absent
\* attribute exactly when the lexeme is a keyword and an IDENTIFIER
\* otherwise (so int_ is an IDENTIFIER).
C5_KeywordExclusivity ==
    /\ \A i \in OfKind(tokens, "IDENTIFIER") : tokens[i].lexeme \notin SpecKeywords
    /\ \A i \in OfKind(tokens, "KEYWORD") :
          tokens[i].lexeme \in SpecKeywords /\ tokens[i].attr = None
    /\ DOMAIN symbols \cap SpecKeywords = {}
    /\ \A k \in DOMAIN trace :
          trace[k].kind = "ID" =>
             /\ trace[k].tok \in DOMAIN tokens
             /\ LET t == tokens[trace[k].tok]
                IN  /\ t.lexeme = Slice(src, trace[k].start,
                                        trace[k].start + trace[k].len)
                    /\ t.kind = IF t.lexeme \in SpecKeywords
                                THEN "KEYWORD" ELSE "IDENTIFIER"

\* C5 witness: a keyword and an identifier that extends a keyword by an
\* underscore have both been scanned.
C5_Witness ==
    /\ pc = "done"
    /\ OfKind(tokens, "KEYWORD") # {}
    /\ \E i \in OfKind(tokens, "IDENTIFIER") :
          /\ Len(tokens[i].lexeme) >= 2
          /\ SubSeq(tokens[i].lexeme, 1, Len(tokens[i].lexeme) - 1) \in SpecKeywords
          /\ tokens[i].lexeme[Len(tokens[i].lexeme)] = "_"

\* ----------------------------------------------------------------------
\* The text that the handled matches account for: the lexeme of the token
\* for a match that produced one, the matched span for a skipped match, in
\* order.
RECURSIVE Reconstructed(_, _, _)
Reconstructed(s, ts, tr) ==
    IF tr = <<>> THEN <<>>
    ELSE LET last == tr[Len(tr)]
         IN  Reconstructed(s, ts, SubSeq(tr, 1, Len(tr) - 1))
               \o (IF last.tok = 0
                   THEN Slice(s, last.start, last.start + last.len)
                   ELSE ts[last.tok].lexeme)

\* C2 (Coverage): the lexemes of the emitted tokens (PP_DIRECTIVE and ERROR
\* tokens included) and the skipped spans, concatenated in source order,
\* reconstruct the source exactly: during the scan they make up the text
\* before the current match, at its end the whole text.
C2_Coverage ==
    /\ pc = "scan" => Reconstructed(src, tokens, trace) = Slice(src, 0, mo.start)
    /\ pc = "done" => Reconstructed(src, tokens, trace) = src

\* ----------------------------------------------------------------------
\* TRUE iff the quote character at offset p of s has no second occurrence
\* before the end of its line (or of the text).
Unclosed(s, p) ==
    /\ At(s, p) \in {"\"", "'"}
    /\ \A q \in (p + 1)..(p + LineRest(s, p + 1)) : At(s, q) # At(s, p)

\* C6 (Unterminated detection): a match that starts at a quote with no
\* closing quote before the end of the line or of the input produces exactly
\* one ERROR token, whose lexeme runs from the opening quote to the end of
\* the line/input and whose diagnostic is that of an unterminated literal
\* (not that of an unexpected character).
C6_UnterminatedDetection ==
    \A k \in DOMAIN trace :
       Unclosed(src, trace[k].start) =>
          /\ trace[k].tok \in DOMAIN tokens
          /\ LET t == tokens[trace[k].tok]
                 p == trace[k].start
             IN  /\ t.kind = "ERROR"
                 /\ t.lexeme = Slice(src, p, p + 1 + LineRest(src, p + 1))
                 /\ t.attr # MsgAttr(MsgMismatch)

\* ----------------------------------------------------------------------
\* TRUE iff a digit run starts at offset p of s and is immediately followed
\* by a letter or an underscore.
DigitLed(s, p) ==
    LET d == RunLen(s, p, Digit)
    IN  d > 0 /\ p + d < Len(s) /\ At(s, p + d) \in IdStart

\* The digit run at offset p and the whole run of letters, ASCII digits and
\* underscores after it.
WordAt(s, p) ==
    LET d == RunLen(s, p, Digit)
    IN  Slice(s, p, p + d + RunLen(s, p + d, IdChar))

\* Kinds of a token sequence.
KindsOf(ts) == [i \in DOMAIN ts |-> ts[i].kind]

\* int 123abc = 10;
DigitLedExample ==
    <<"i","n","t"," ","1","2","3","a","b","c"," ","="," ","1","0",";">>

\* Token i + 1 starts where the lexeme of token i ends.
Adjacent(ts, i) ==
    /\ i + 1 \in DOMAIN ts
    /\ ts[i + 1].line = ts[i].line
    /\ ts[i + 1].col = ts[i].col + Len(ts[i].lexeme)

\* The ERROR token that reports the digit-led word at offset p.
IsDigitLedError(t, s, p) ==
    /\ t.kind = "ERROR"
    /\ t.lexeme = WordAt(s, p)
    /\ t.attr = MsgAttr(MsgNumId)
    /\ t.line = PositionAfter(Slice(s, 0, p)).line
    /\ t.col = PositionAfter(Slice(s, 0, p)).col

\* C7 as stated (Error non-fatality for digit-led identifiers): WHENEVER a
\* digit run is immediately followed by an identifier-start character, one
\* ERROR token covers the digit run and the run of letters, digits and
\* underscores after it.  The digit runs meant are those that start a word
\* (not preceded by a letter, digit or underscore) outside string and
\* character literals, comments and directives.
C7_DigitLedAnywhere ==
    pc = "done" =>
       \A p \in 0..(Len(src) - 1) :
          ( /\ DigitLed(src, p)
            /\ p = 0 \/ At(src, p - 1) \notin IdChar \cup Digit
            /\ \A k \in DOMAIN trace :
                  trace[k].kind \in {"STRING", "CHAR", "COMMENT_BLOCK",
                                     "COMMENT_LINE", "PP_DIRECTIVE"}
                     => ~(trace[k].start <= p /\ p < trace[k].start + trace[k].len) )
          => \E i \in DOMAIN tokens : IsDigitLedError(tokens[i], src, p)

\* C7 as amended: whenever a MATCH STARTS at a digit run that is immediately
\* followed by an identifier-start character, the match is the digit run
\* with the whole run of letters, ASCII digits and underscores after it and
\* produces exactly one ERROR token with that lexeme and the
\* digit-led-identifier diagnostic, and no symbol-table
\* entry; an INT_LITERAL is never directly followed by an identifier or
\* keyword token; and int 123abc = 10; scans as KEYWORD, ERROR, ASSIGN_OP,
\* INT_LITERAL, SEMICOLON, EOF.
C7_DigitLedAtMatchStart ==
    /\ \A k \in DOMAIN trace :
          DigitLed(src, trace[k].start) =>
             /\ trace[k].len = Len(WordAt(src, trace[k].start))
             /\ trace[k].tok \in DOMAIN tokens
             /\ IsDigitLedError(tokens[trace[k].tok], src, trace[k].start)
             /\ WordAt(src, trace[k].start) \notin DOMAIN symbols
    /\ \A i \in OfKind(tokens, "INT_LITERAL") :
          Adjacent(tokens, i) => tokens[i + 1].kind \notin {"IDENTIFIER", "KEYWORD"}
    /\ (pc = "done" /\ src = DigitLedExample) =>
          KindsOf(tokens) = <<"KEYWORD", "ERROR", "ASSIGN_OP", "INT_LITERAL",
                              "SEMICOLON", "EOF">>

\* C7 witness: a digit-led word has been reported and the scan went on to
\* classify a number after it.
C7_Witness ==
    /\ pc = "done"
    /\ \E k \in DOMAIN trace :
          /\ DigitLed(src, trace[k].start)
          /\ trace[k].tok \in DOMAIN tokens
          /\ \E i \in OfKind(tokens, "INT_LITERAL") : i > trace[k].tok

\* ----------------------------------------------------------------------
\* The operator/delimiter category table of the specification (section 4.1),
\* as pairs of lexeme and category.
SpecCategoryTable == {
    <<<<"+">>, "ARITH_OP">>, <<<<"-">>, "ARITH_OP">>, <<<<"*">>, "ARITH_OP">>,
    <<<<"/">>, "ARITH_OP">>, <<<<"%">>, "ARITH_OP">>, <<<<"=","=">>, "REL_OP">>,
    <<<<"!","=">>, "REL_OP">>, <<<<"<">>, "REL_OP">>, <<<<"<","=">>, "REL_OP">>,
    <<<<">">>, "REL_OP">>, <<<<">","=">>, "REL_OP">>, <<<<"&","&">>, "LOGIC_OP">>,
    <<<<"|","|">>, "LOGIC_OP">>, <<<<"!">>, "LOGIC_OP">>, <<<<"&">>, "BIT_OP">>,
    <<<<"|">>, "BIT_OP">>, <<<<"^">>, "BIT_OP">>, <<<<"~">>, "BIT_OP">>,
    <<<<"<","<">>, "BIT_OP">>, <<<<">",">">>, "BIT_OP">>, <<<<"=">>, "ASSIGN_OP">>,
    <<<<"+","=">>, "ASSIGN_OP">>, <<<<"-","=">>, "ASSIGN_OP">>, <<<<"*","=">>, "ASSIGN_OP">>,
    <<<<"/","=">>, "ASSIGN_OP">>, <<<<"%","=">>, "ASSIGN_OP">>, <<<<"&","=">>, "ASSIGN_OP">>,
    <<<<"|","=">>, "ASSIGN_OP">>, <<<<"^","=">>, "ASSIGN_OP">>, <<<<"<","<","=">>, "ASSIGN_OP">>,
    <<<<">",">","=">>, "ASSIGN_OP">>, <<<<"+","+">>, "INCDEC">>, <<<<"-","-">>, "INCDEC">>,
    <<<<"-",">">>, "ARROW">>, <<<<".",".",".">>, "ELLIPSIS">>, <<<<"?">>, "TERNARY">>,
    <<<<":">>, "TERNARY">>, <<<<"(">>, "LPAREN">>, <<<<")">>, "RPAREN">>,
    <<<<"{">>, "LBRACE">>, <<<<"}">>, "RBRACE">>, <<<<"[">>, "LBRACKET">>,
    <<<<"]">>, "RBRACKET">>, <<<<";">>, "SEMICOLON">>, <<<<",">>, "COMMA">>,
    <<<<".">>, "DOT">>
}

SpecOpLexemes == {e[1] : e \in SpecCategoryTable}

SpecCategory(lexeme) ==
    (CHOOSE e \in SpecCategoryTable : e[1] = lexeme)[2]

\* C8 (Operator precedence and categories): scanning a lexeme of the table
\* alone yields exactly one token before EOF, whose lexeme is the whole input
\* and whose kind is the table's category; every token produced by an
\* operator or delimiter pattern has a lexeme of the table and its category,
\* never one of the fallback kinds, and is never a proper prefix of a longer
\* table lexeme present at that place (a multi-character operator is not
\* split).
C8_Operators ==
    /\ (pc = "done" /\ src \in SpecOpLexemes) =>
          /\ Len(tokens) = 2
          /\ tokens[1].lexeme = src
          /\ tokens[1].kind = SpecCategory(src)
          /\ tokens[1].attr = None
    /\ \A i \in DOMAIN tokens :
          tokens[i].kind \notin {"UNKNOWN_OP_DELIM", "OP", "DELIM"}
    /\ \A k \in DOMAIN trace :
          trace[k].kind \in {"ELLIPSIS", "OP_3", "OP_2", "OP_1", "DELIM"} =>
             /\ trace[k].tok \in DOMAIN tokens
             /\ LET t == tokens[trace[k].tok]
                IN  /\ t.lexeme = Slice(src, trace[k].start,
                                        trace[k].start + trace[k].len)
                    /\ t.lexeme \in SpecOpLexemes
                    /\ t.kind = SpecCategory(t.lexeme)
                    /\ \A lex \in SpecOpLexemes :
                          Len(lex) > Len(t.lexeme)
                             => ~StartsWith(src, trace[k].start, lex)

\* C8 witness: the three-character operator <<= alone has been scanned into
\* one ASSIGN_OP token.
C8_Witness ==
    /\ pc = "done"
    /\ src = <<"<", "<", "=">>
    /\ KindsOf(tokens) = <<"ASSIGN_OP", "EOF">>

\* ----------------------------------------------------------------------
\* Length of a single-quoted run at offset p of s with two or more plain
\* characters (no quote, backslash or newline) between its quotes; 0 when
\* there is none.
MultiCharRun(s, p) ==
    IF At(s, p) = "'"
    THEN LET n == RunLen(s, p + 1, {c \in {At(s, q) : q \in (p + 1)..(Len(s) - 1)} :
                                      c \notin {"'", "\\", "\n"}})
         IN  IF n >= 2 /\ p + 1 + n < Len(s) /\ At(s, p + 1 + n) = "'"
             THEN n + 2 ELSE 0
    ELSE 0

\* C9 (Multi-character character literal): a match that starts at a
\* single-quoted run with two or more plain characters between its quotes
\* produces exactly one ERROR token covering the run from the opening to the
\* closing quote, with a diagnostic of its own (not that of an unexpected
\* character).
C9_MultiCharLiteral ==
    \A k \in DOMAIN trace :
       MultiCharRun(src, trace[k].start) > 0 =>
          /\ trace[k].tok \in DOMAIN tokens
          /\ LET t == tokens[trace[k].tok]
                 p == trace[k].start
             IN  /\ t.kind = "ERROR"
                 /\ t.lexeme = Slice(src, p, p + MultiCharRun(src, p))
                 /\ t.attr # MsgAttr(MsgMismatch)

\* ----------------------------------------------------------------------
\* C10 (Scan lifecycle): every scan starts from an empty token sequence and
\* an empty symbol table with the next id at 1, so that every call of
\* tokenize on a Lexer, a second one included, returns the token sequence of
\* one scan of the source: exactly one EOF token, at its end.
C10_ScanLifecycle ==
    /\ (pc = "scan" /\ trace = <<>>) =>
          tokens = <<>> /\ symbols = <<>> /\ next_id = 1
    /\ pc = "done" => EndsWithOneEOF(tokens, src)
====
